---- MODULE Spec2Model ----
(***************************************************************************)
(* A model of fix_statistics.py: the csv reader (read_statistics), the     *)
(* StatisticEntry object graph with its backup bookkeeping, the two        *)
(* correction passes (fix_states, fix_sums) and the SQL emitter.           *)
(*                                                                         *)
(* Python objects live in `heap`, a sequence of StatisticEntry records; a  *)
(* reference is an index into it and 0 is None.  A backup is itself a      *)
(* StatisticEntry object, allocated by make_backup.  Numbers are modelled  *)
(* by integers (floats with integral values, on which -, + and the         *)
(* comparisons of the code are exact).                                     *)
(***************************************************************************)
EXTENDS Integers, Sequences, FiniteSets

VARIABLES
    lines,          \* the input file: a sequence of lines, each a sequence of fields
    final_newline,  \* whether the last line of the file ends with "\n"
    heap,           \* every StatisticEntry object ever constructed
    previous,       \* read_statistics: the local `previous` (a reference)
    statistics,     \* the list of entries yielded so far / returned by load_statistics
    pc,             \* position of the module-level script
    idx,            \* the running loop's enumerate index (elements already consumed)
    fixes,          \* list(fixed_entries(statistics))
    sql,            \* what generate_sql wrote
    visited         \* history: what each loop iteration of the two passes read on entry

vars == <<lines, final_newline, heap, previous, statistics, pc, idx, fixes, sql, visited>>

\* Bounds of the model.
MaxLines == 3
MaxState == 2
MaxSum == 1

None == 0

(***************************************************************************)
(* Fields of a line.  A field is described by what the code asks of it:    *)
(* digits  - str.isnumeric() is true of the bare text (decimal digits),    *)
(* num     - float() accepts the text,                                     *)
(* val     - the number float()/int() returns.                             *)
(***************************************************************************)
Digits(n) == [digits |-> TRUE, num |-> TRUE, val |-> n]
Signed(n) == [digits |-> FALSE, num |-> TRUE, val |-> n]
Text == [digits |-> FALSE, num |-> FALSE, val |-> 0]

\* `for line in file`: every line but possibly the last ends with "\n", and
\* line.split(separator) leaves that "\n" in the last field.
EndsWithNewline(k) == k < Len(lines) \/ final_newline

\* values[i] with Python's indexing of a list (i is 0-based, negative from the end).
PyIndex(values, i) == IF i < 0 THEN values[Len(values) + i + 1] ELSE values[i + 1]

\* first_value.isnumeric(): false when the field carries the line's "\n".
isnumeric(values, k) == values[1].digits /\ ~(Len(values) = 1 /\ EndsWithNewline(k))

\* The body of read_statistics' loop for line k: "skip" (header), "error"
\* (float() raises ValueError) or "row" with the values of the new entry.
parse_line(k) ==
    LET values == lines[k]
        sum_idx == Len(values) - 1
        state_idx == sum_idx - 1
        state_f == PyIndex(values, state_idx)
        sum_f == PyIndex(values, sum_idx)
    IN  IF ~isnumeric(values, k)
        THEN [kind |-> "skip", id |-> 0, state |-> 0, sum |-> 0]
        ELSE IF ~state_f.num \/ ~sum_f.num
        THEN [kind |-> "error", id |-> 0, state |-> 0, sum |-> 0]
        ELSE [kind |-> "row", id |-> values[1].val, state |-> state_f.val, sum |-> sum_f.val]

\* StatisticEntry.__init__
StatisticEntry(id, state, sum, line_number, prev) ==
    [id |-> id, state |-> state, sum |-> sum, line_number |-> line_number,
     prev |-> prev, original |-> None]

has_previous(h, e) == h[e].prev # None
has_backup(h, e) == h[e].original # None

\* make_backup taking a fresh copy on every call (the has_backup test lost).
make_backup_overwrite(h, e) ==
    LET p == h[e].prev
        original_previous == IF h[p].original # None THEN h[p].original ELSE p
        copy == [id |-> h[e].id, state |-> h[e].state, sum |-> h[e].sum,
                 line_number |-> h[e].line_number, prev |-> original_previous,
                 original |-> None]
    IN  [Append(h, copy) EXCEPT ![e].original = Len(h) + 1]

\* make_backup storing original_previous in the entry itself as well.
make_backup_relink(h, e) ==
    LET p == h[e].prev
        original_previous == IF h[p].original # None THEN h[p].original ELSE p
        copy == [id |-> h[e].id, state |-> h[e].state, sum |-> h[e].sum,
                 line_number |-> h[e].line_number, prev |-> original_previous,
                 original |-> None]
    IN  IF h[e].original = None
        THEN [Append(h, copy) EXCEPT ![e].original = Len(h) + 1,
                                     ![e].prev = original_previous]
        ELSE h

\* StatisticEntry.make_backup: the backup is a new object holding the entry's
\* current values; its prev is the predecessor's backup when there is one.
make_backup(h, e) ==
    LET p == h[e].prev
        original_previous == IF h[p].original # None THEN h[p].original ELSE p
        copy == StatisticEntry(h[e].id, h[e].state, h[e].sum, h[e].line_number,
                               original_previous)
    IN  IF ~has_backup(h, e)
        THEN [Append(h, copy) EXCEPT ![e].original = Len(h) + 1]
        ELSE h

\* fix_state carrying forward the predecessor's original (backed-up) state.
fix_state_from_original(h, e) ==
    LET h1 == make_backup(h, e)
        p == h1[e].prev
        source == IF h1[p].original # None THEN h1[p].original ELSE p
    IN  [h1 EXCEPT ![e].state = h1[source].state]

\* StatisticEntry.fix_state
fix_state(h, e) ==
    LET h1 == make_backup(h, e)
    IN  [h1 EXCEPT ![e].state = h1[h1[e].prev].state]

\* fix_sum computing from the predecessor's original (backed-up) values.
fix_sum_from_original(h, e) ==
    LET h1 == make_backup(h, e)
        p == h1[e].prev
        source == IF h1[p].original # None THEN h1[p].original ELSE p
        state_change == h1[e].state - h1[source].state
    IN  IF state_change >= 0
        THEN [h1 EXCEPT ![e].sum = h1[source].sum + state_change]
        ELSE h1

\* StatisticEntry.fix_sum
fix_sum(h, e) ==
    LET h1 == make_backup(h, e)
        p == h1[e].prev
        state_change == h1[e].state - h1[p].state
    IN  IF state_change >= 0
        THEN [h1 EXCEPT ![e].sum = h1[p].sum + state_change]
        ELSE h1

\* fix_states' loop body without the test of the predecessor's state.
fix_states_visit_any_zero(h, e) ==
    IF h[e].state = 0 /\ has_previous(h, e)
    THEN fix_state(h, e)
    ELSE h

\* The body of fix_states' loop for one entry.
fix_states_visit(h, e) ==
    IF h[e].state = 0 /\ has_previous(h, e) /\ h[h[e].prev].state # 0
    THEN fix_state(h, e)
    ELSE h

\* fix_sums' loop body without the meter-replacement `continue`.
fix_sums_visit_no_skip(h, e) ==
    IF ~has_previous(h, e)
    THEN h
    ELSE LET p == h[e].prev
             state_change == h[e].state - h[p].state
             expected_sum == h[p].sum + state_change
         IN  IF h[e].sum # expected_sum
             THEN fix_sum(h, e)
             ELSE h

\* The body of fix_sums' loop for one entry.
fix_sums_visit(h, e) ==
    IF ~has_previous(h, e)
    THEN h
    ELSE LET p == h[e].prev
             state_change == h[e].state - h[p].state
             expected_sum == h[p].sum + state_change
         IN  IF state_change < 0
             THEN h
             ELSE IF h[e].sum # expected_sum
             THEN fix_sum(h, e)
             ELSE h

\* entries_with_fixed_state / entries_with_fixed_sum / fixed_entries, as the
\* generators yield: the entries of the given list, in its order.
state_differs(h, e) == has_backup(h, e) /\ h[h[e].original].state # h[e].state
sum_differs(h, e) == has_backup(h, e) /\ h[h[e].original].sum # h[e].sum

fixed_entries(h, list) == SelectSeq(list, LAMBDA e : has_backup(h, e))
entries_with_fixed_state(h, list) == SelectSeq(list, LAMBDA e : state_differs(h, e))
entries_with_fixed_sum(h, list) == SelectSeq(list, LAMBDA e : sum_differs(h, e))

\* generate_sql: the WHEN lines of the two CASE blocks and the list `ids`,
\* appended to in the order the two loops run.
RECURSIVE when_state(_, _)
when_state(h, list) ==
    IF list = <<>> THEN <<>>
    ELSE <<[id |-> h[Head(list)].id, value |-> h[Head(list)].state]>>
         \o when_state(h, Tail(list))

RECURSIVE when_sum(_, _)
when_sum(h, list) ==
    IF list = <<>> THEN <<>>
    ELSE <<[id |-> h[Head(list)].id, value |-> h[Head(list)].sum]>>
         \o when_sum(h, Tail(list))

RECURSIVE ids_of(_)
ids_of(whens) ==
    IF whens = <<>> THEN <<>> ELSE <<Head(whens).id>> \o ids_of(Tail(whens))

\* generate_sql appending an id to `ids` only when it is not yet there.
RECURSIVE unique(_)
unique(ids) ==
    IF ids = <<>> THEN <<>>
    ELSE LET front == unique(SubSeq(ids, 1, Len(ids) - 1))
             last == ids[Len(ids)]
         IN  IF \E k \in 1..Len(front) : front[k] = last
             THEN front ELSE Append(front, last)

generate_sql_dedup(h, list) ==
    LET state_case == when_state(h, entries_with_fixed_state(h, list))
        sum_case == when_sum(h, entries_with_fixed_sum(h, list))
    IN  [written |-> TRUE, state_case |-> state_case, sum_case |-> sum_case,
         ids |-> unique(ids_of(state_case) \o ids_of(sum_case))]

generate_sql(h, list) ==
    LET state_case == when_state(h, entries_with_fixed_state(h, list))
        sum_case == when_sum(h, entries_with_fixed_sum(h, list))
    IN  [written |-> TRUE, state_case |-> state_case, sum_case |-> sum_case,
         ids |-> ids_of(state_case) \o ids_of(sum_case)]

NoFile == [written |-> FALSE, state_case |-> <<>>, sum_case |-> <<>>, ids |-> <<>>]

(***************************************************************************)
(* The input files.                                                        *)
(***************************************************************************)
Header == <<Text, Text, Text>>

\* A well-formed export: an optional header line, then lines ID,STATE,SUM
\* with distinct ids; cells[k] is the <<STATE, SUM>> of the k-th data line.
Export(header, cells) ==
    (IF header THEN <<Header>> ELSE <<>>)
    \o [k \in 1..Len(cells) |-> <<Digits(10 + k), Digits(cells[k][1]), Digits(cells[k][2])>>]

\* Fields and lines of arbitrary short files, for the reader.
Fields == {Text, Signed(-1), Digits(0), Digits(1), Digits(2)}
ShortLines == UNION {[1..n -> Fields] : n \in 1..3}

Start(file, nl) ==
    /\ lines = file
    /\ final_newline = nl
    /\ heap = <<>>
    /\ previous = None
    /\ statistics = <<>>
    /\ pc = "read"
    /\ idx = 0
    /\ fixes = <<>>
    /\ sql = NoFile
    /\ visited = <<>>

Init ==
    \E n \in 0..MaxLines : \E header \in BOOLEAN :
        \E cells \in [1..n -> (0..MaxState) \X (0..MaxSum)] :
            Start(Export(header, cells), TRUE)

InitAny ==
    \E n \in 0..(MaxLines - 1) : \E file \in [1..n -> ShortLines] :
        \E nl \in BOOLEAN : Start(file, nl)

(***************************************************************************)
(* The script: load_statistics, fix_states, fix_sums, fixed_entries,       *)
(* generate_sql.                                                           *)
(***************************************************************************)
\* One iteration of read_statistics' loop, consumed by list().
ReadLine ==
    /\ pc = "read"
    /\ idx < Len(lines)
    /\ LET line_number == idx + 1
           r == parse_line(line_number)
       IN  /\ idx' = idx + 1
           /\ IF r.kind = "row"
              THEN /\ heap' = Append(heap, StatisticEntry(r.id, r.state, r.sum,
                                                          line_number, previous))
                   /\ previous' = Len(heap) + 1
                   /\ statistics' = Append(statistics, Len(heap) + 1)
                   /\ pc' = pc
              ELSE /\ UNCHANGED <<heap, previous, statistics>>
                   /\ pc' = IF r.kind = "error" THEN "aborted" ELSE pc
    /\ UNCHANGED <<lines, final_newline, fixes, sql, visited>>

\* The file is exhausted: load_statistics returns the list.
EndRead ==
    /\ pc = "read"
    /\ idx = Len(lines)
    /\ pc' = "fix_states"
    /\ idx' = 0
    /\ UNCHANGED <<lines, final_newline, heap, previous, statistics, fixes, sql, visited>>

\* What a pass reads of an entry when its loop reaches it.
Seen(pass, h, e) ==
    [pass |-> pass, entry |-> e, state |-> h[e].state, sum |-> h[e].sum,
     has_previous |-> has_previous(h, e),
     prev_state |-> IF has_previous(h, e) THEN h[h[e].prev].state ELSE 0,
     prev_sum |-> IF has_previous(h, e) THEN h[h[e].prev].sum ELSE 0]

FixStatesStep ==
    /\ pc = "fix_states"
    /\ idx < Len(statistics)
    /\ heap' = fix_states_visit(heap, statistics[idx + 1])
    /\ visited' = Append(visited, Seen("fix_states", heap, statistics[idx + 1]))
    /\ idx' = idx + 1
    /\ UNCHANGED <<lines, final_newline, previous, statistics, pc, fixes, sql>>

EndFixStates ==
    /\ pc = "fix_states"
    /\ idx = Len(statistics)
    /\ pc' = "fix_sums"
    /\ idx' = 0
    /\ UNCHANGED <<lines, final_newline, heap, previous, statistics, fixes, sql, visited>>

FixSumsStep ==
    /\ pc = "fix_sums"
    /\ idx < Len(statistics)
    /\ heap' = fix_sums_visit(heap, statistics[idx + 1])
    /\ visited' = Append(visited, Seen("fix_sums", heap, statistics[idx + 1]))
    /\ idx' = idx + 1
    /\ UNCHANGED <<lines, final_newline, previous, statistics, pc, fixes, sql>>

\* fix_sums returns and the script collects the fixed entries.
EndFixSums ==
    /\ pc = "fix_sums"
    /\ idx = Len(statistics)
    /\ fixes' = fixed_entries(heap, statistics)
    /\ pc' = "generate_sql"
    /\ idx' = 0
    /\ UNCHANGED <<lines, final_newline, heap, previous, statistics, sql, visited>>

GenerateSql ==
    /\ pc = "generate_sql"
    /\ sql' = generate_sql(heap, fixes)
    /\ pc' = "done"
    /\ UNCHANGED <<lines, final_newline, heap, previous, statistics, idx, fixes, visited>>

Next ==
    \/ ReadLine
    \/ EndRead
    \/ FixStatesStep
    \/ EndFixStates
    \/ FixSumsStep
    \/ EndFixSums
    \/ GenerateSql

Spec == Init /\ [][Next]_vars

\* The same script on arbitrary files.
SpecAny == InitAny /\ [][Next]_vars

(***************************************************************************)
(* The entry methods called directly, in any order, on loaded entries that *)
(* have a predecessor.                                                     *)
(***************************************************************************)
MaxCalls == 3

Loaded ==
    /\ pc = "read"
    /\ idx = Len(lines)
    /\ pc' = "calls"
    /\ UNCHANGED <<lines, final_newline, heap, previous, statistics, idx, fixes, sql, visited>>

CallFixState ==
    /\ pc = "calls"
    /\ Len(visited) < MaxCalls
    /\ \E i \in 1..Len(statistics) :
        /\ has_previous(heap, statistics[i])
        /\ heap' = fix_state(heap, statistics[i])
        /\ visited' = Append(visited, Seen("fix_state", heap, statistics[i]))
    /\ UNCHANGED <<lines, final_newline, previous, statistics, pc, idx, fixes, sql>>

CallFixSum ==
    /\ pc = "calls"
    /\ Len(visited) < MaxCalls
    /\ \E i \in 1..Len(statistics) :
        /\ has_previous(heap, statistics[i])
        /\ heap' = fix_sum(heap, statistics[i])
        /\ visited' = Append(visited, Seen("fix_sum", heap, statistics[i]))
    /\ UNCHANGED <<lines, final_newline, previous, statistics, pc, idx, fixes, sql>>

NextCalls ==
    \/ ReadLine
    \/ Loaded
    \/ CallFixState
    \/ CallFixSum

SpecCalls == Init /\ [][NextCalls]_vars

(***************************************************************************)
(* Vocabulary of the properties.                                           *)
(***************************************************************************)
\* The values the reader took from the input line an entry was built from.
InputOf(e) == parse_line(heap[e].line_number)

\* The data lines of the input, in input order.
DataLineNumbers ==
    SelectSeq([k \in 1..Len(lines) |-> k], LAMBDA k : parse_line(k).kind = "row")

StatesPassDone == pc \in {"fix_sums", "generate_sql", "done"}
PassesDone == pc \in {"generate_sql", "done"}

\* What fix_states / fix_sums read when their loop reached the i-th entry.
SeenByFixStates(i) == visited[i]
SeenByFixSums(i) == visited[Len(statistics) + i]

Corrected(e) == has_backup(heap, e) /\ (state_differs(heap, e) \/ sum_differs(heap, e))

(***************************************************************************)
(* C1: after fix_states and then fix_sums over the whole input, every row  *)
(* with a predecessor and state - predecessor.state >= 0 has               *)
(* sum = predecessor.sum + (state - predecessor.state), the predecessor's  *)
(* values being its current (possibly corrected) ones.                     *)
(***************************************************************************)
C1_SumFixCorrect ==
    PassesDone =>
        \A i \in 1..Len(statistics) :
            LET e == statistics[i]
                p == heap[e].prev
            IN  (p # None /\ heap[e].state - heap[p].state >= 0)
                    => heap[e].sum = heap[p].sum + (heap[e].state - heap[p].state)

\* A row whose sum was fixed from a predecessor whose own sum had been fixed,
\* so that the original predecessor values would give another sum.
C1_Witness ==
    /\ pc = "done"
    /\ \E i \in 2..Len(statistics) :
        LET e == statistics[i]
            p == heap[e].prev
        IN  /\ sum_differs(heap, e)
            /\ sum_differs(heap, p)
            /\ heap[e].state - heap[p].state >= 0
            /\ heap[e].sum # heap[heap[p].original].sum + (heap[e].state - heap[p].state)

(***************************************************************************)
(* C2: after the fix_states pass, a row whose input state was 0 and whose  *)
(* predecessor's state was non-zero when the row was visited has its       *)
(* predecessor's state; every row of a run of zero-state rows following a  *)
(* non-zero state ends with that state; no row is left with state 0 after  *)
(* a non-zero predecessor state.                                           *)
(***************************************************************************)
C2_StateFixCorrect ==
    StatesPassDone =>
        \A i \in 1..Len(statistics) :
            LET e == statistics[i]
                p == heap[e].prev
            IN  p # None =>
                /\ (InputOf(e).state = 0 /\ SeenByFixStates(i).prev_state # 0)
                        => /\ heap[e].state = heap[p].state
                           /\ heap[e].state = SeenByFixStates(i).prev_state
                /\ ~(heap[e].state = 0 /\ heap[p].state # 0)
                /\ \A j \in 2..i :
                        (/\ \A k \in j..i : InputOf(statistics[k]).state = 0
                         /\ InputOf(statistics[j - 1]).state # 0)
                            => heap[e].state = InputOf(statistics[j - 1]).state

\* A run of two zero-state rows after a non-zero one, both carried forward.
C2_Witness ==
    /\ pc = "done"
    /\ \E i \in 3..Len(statistics) :
        /\ InputOf(statistics[i]).state = 0
        /\ InputOf(statistics[i - 1]).state = 0
        /\ InputOf(statistics[i - 2]).state # 0
        /\ heap[statistics[i]].state = InputOf(statistics[i - 2]).state
        /\ heap[statistics[i - 1]].state = InputOf(statistics[i - 2]).state

(***************************************************************************)
(* C3: a row whose state is lower than its predecessor's current state     *)
(* when fix_sums visits it is left untouched: the pass does not change its *)
(* sum, and after both passes it has no backup and its state and sum are   *)
(* the values read from the input.                                         *)
(***************************************************************************)
C3_ReplacementUntouched ==
    \A k \in 1..Len(visited) :
        LET v == visited[k]
            e == v.entry
        IN  (v.pass = "fix_sums" /\ v.has_previous /\ v.state - v.prev_state < 0)
                => /\ heap[e].sum = v.sum
                   /\ ~has_backup(heap, e)
                   /\ heap[e].state = InputOf(e).state
                   /\ heap[e].sum = InputOf(e).sum

\* A meter replacement whose sum does not fit either, next to a fixed row.
C3_Witness ==
    /\ pc = "done"
    /\ \E i \in 1..Len(statistics) :
        /\ SeenByFixSums(i).has_previous
        /\ SeenByFixSums(i).state - SeenByFixSums(i).prev_state < 0
        /\ SeenByFixSums(i).sum # SeenByFixSums(i).prev_sum
    /\ \E j \in 1..Len(statistics) : Corrected(statistics[j])

\* The lines the reader has consumed so far.
LinesRead == IF pc \in {"read", "aborted"} THEN 1..idx ELSE 1..Len(lines)

(***************************************************************************)
(* C4: a line whose first field is all decimal digits but which has fewer  *)
(* than 3 fields makes parsing fail fatally: the run aborts, no row is     *)
(* created for the line and no output file is produced.                    *)
(***************************************************************************)
C4_ShortLineIsFatal ==
    \A k \in LinesRead :
        (isnumeric(lines[k], k) /\ Len(lines[k]) < 3)
            => /\ pc = "aborted"
               /\ ~\E o \in DOMAIN heap : heap[o].line_number = k
               /\ ~sql.written

\* A recorded call that assigned the entry's state or sum.
Assigns(v) ==
    \/ v.pass = "fix_state"
    \/ v.pass = "fix_sum" /\ v.state - v.prev_state >= 0

(***************************************************************************)
(* C5: after any sequence of fix_state and fix_sum calls on rows that have *)
(* a predecessor, a row has a backup if and only if some call assigned its *)
(* state or its sum; a fix_sum call with a negative state change, which    *)
(* leaves the sum alone, leaves no backup.                                 *)
(***************************************************************************)
C5_BackupIffCorrected ==
    pc = "calls" =>
        \A i \in 1..Len(statistics) :
            has_backup(heap, statistics[i])
                <=> \E k \in 1..Len(visited) :
                        visited[k].entry = statistics[i] /\ Assigns(visited[k])

\* One step keeps every existing backup, and a new backup copies the entry.
BackupKept ==
    \A o \in DOMAIN heap :
        /\ heap[o].original # None
            => /\ heap'[o].original = heap[o].original
               /\ heap'[heap[o].original] = heap[heap[o].original]
        /\ (heap[o].original = None /\ heap'[o].original # None)
            => LET b == heap'[heap'[o].original]
               IN  /\ b.id = heap[o].id
                   /\ b.state = heap[o].state
                   /\ b.sum = heap[o].sum
                   /\ b.line_number = heap[o].line_number

BackupIsInput ==
    \A i \in 1..Len(statistics) :
        LET e == statistics[i]
            b == heap[heap[e].original]
        IN  has_backup(heap, e)
                => /\ b.id = InputOf(e).id
                   /\ b.state = InputOf(e).state
                   /\ b.sum = InputOf(e).sum
                   /\ b.line_number = heap[e].line_number

(***************************************************************************)
(* C6: the backup of a row is write-once.  The first make_backup stores    *)
(* the row's current id, state, sum and line number; later calls leave the *)
(* backup's fields and its predecessor link unchanged; so the backup holds *)
(* the row's values as read from the input.                                *)
(***************************************************************************)
C6_BackupWriteOnce == [][BackupKept]_vars /\ []BackupIsInput

\* A row corrected twice (state by fix_states, sum by fix_sums): make_backup
\* ran twice on it.
C6_Witness ==
    /\ pc = "done"
    /\ \E i \in 1..Len(statistics) :
        state_differs(heap, statistics[i]) /\ sum_differs(heap, statistics[i])

\* The entry the running loop visits next.
Current == IF idx < Len(statistics) THEN statistics[idx + 1] ELSE None

ChainFrame ==
    /\ \A o \in DOMAIN heap :
        /\ heap'[o].prev = heap[o].prev
        /\ heap'[o].id = heap[o].id
        /\ heap'[o].line_number = heap[o].line_number
        /\ pc = "read" => heap'[o] = heap[o]
        /\ pc = "fix_states" => heap'[o].sum = heap[o].sum
        /\ pc = "fix_sums" => heap'[o].state = heap[o].state
        /\ (pc \in {"fix_states", "fix_sums"} /\ o # Current) => heap'[o] = heap[o]
    /\ pc \notin {"read", "fix_states", "fix_sums"} => heap' = heap
    /\ pc # "read" => statistics' = statistics

ChainIsInputOrder ==
    /\ Len(statistics) <= Len(DataLineNumbers)
    /\ pc \notin {"read", "aborted"} => Len(statistics) = Len(DataLineNumbers)
    /\ \A i \in 1..Len(statistics) :
        LET e == statistics[i]
        IN  /\ heap[e].prev = (IF i = 1 THEN None ELSE statistics[i - 1])
            /\ heap[e].line_number = DataLineNumbers[i]
            /\ heap[e].id = InputOf(e).id
            /\ i = 1 => /\ ~has_backup(heap, e)
                        /\ heap[e].state = InputOf(e).state
                        /\ heap[e].sum = InputOf(e).sum

(***************************************************************************)
(* C7: chain topology and identity never change.  fix_state assigns only   *)
(* the called row's state (and backup), fix_sum only the called row's sum  *)
(* (and backup); no row's prev, id or line number changes, nor another     *)
(* row's state or sum.  Each row's prev is the row before it in input      *)
(* order; the first row has no prev, no backup and its input values.       *)
(***************************************************************************)
C7_ChainUnchanged == [][ChainFrame]_vars /\ []ChainIsInputOrder

\* Both passes corrected something: one row's state and a later row's sum.
C7_Witness ==
    /\ pc = "done"
    /\ \E i, j \in 2..Len(statistics) :
        /\ i < j
        /\ state_differs(heap, statistics[i])
        /\ sum_differs(heap, statistics[j])

\* The patch sets, taken over the whole chain.
IdsOf(list) == [k \in 1..Len(list) |-> heap[list[k]].id]

changed_state_rows == SelectSeq(statistics, LAMBDA e : state_differs(heap, e))
changed_sum_rows == SelectSeq(statistics, LAMBDA e : sum_differs(heap, e))

(***************************************************************************)
(* C8: the id list written in WHERE id IN (...) is the ids of the rows     *)
(* whose backup state differs from their state, in chain order, followed   *)
(* by the ids of the rows whose backup sum differs from their sum, in      *)
(* chain order; a row in both appears twice.                               *)
(***************************************************************************)
C8_IdList ==
    pc = "done" => sql.ids = IdsOf(changed_state_rows) \o IdsOf(changed_sum_rows)

\* A row in both sets, and another in the sum set only.
C8_Witness ==
    /\ pc = "done"
    /\ Len(changed_sum_rows) >= 2
    /\ \E k \in 1..Len(changed_state_rows) :
        \E m \in 1..Len(changed_sum_rows) : changed_state_rows[k] = changed_sum_rows[m]

\* The input rows are consistent with each other.
NoCorruption ==
    \A i \in 2..Len(DataLineNumbers) :
        LET a == parse_line(DataLineNumbers[i - 1])
            b == parse_line(DataLineNumbers[i])
        IN  /\ ~(b.state = 0 /\ a.state # 0)
            /\ b.state - a.state >= 0 => b.sum = a.sum + (b.state - a.state)

(***************************************************************************)
(* C9: if no input row has state 0 after a non-zero state and every row    *)
(* with state - predecessor.state >= 0 has the expected sum, the passes    *)
(* change no state or sum, create no backup, and the changed-state rows,   *)
(* the changed-sum rows and the fixed rows are all empty.                  *)
(***************************************************************************)
C9_CleanInputUntouched ==
    NoCorruption =>
        /\ \A i \in 1..Len(statistics) :
            LET e == statistics[i]
            IN  /\ heap[e].state = InputOf(e).state
                /\ heap[e].sum = InputOf(e).sum
                /\ ~has_backup(heap, e)
        /\ Len(heap) = Len(statistics)
        /\ changed_state_rows = <<>>
        /\ changed_sum_rows = <<>>
        /\ fixes = <<>>
        /\ sql.state_case = <<>> /\ sql.sum_case = <<>> /\ sql.ids = <<>>

\* A clean input with a rising state and a meter replacement, fully processed.
C9_Witness ==
    /\ pc = "done"
    /\ NoCorruption
    /\ \E i, j \in 2..Len(statistics) :
        /\ InputOf(statistics[i]).state > InputOf(statistics[i - 1]).state
        /\ InputOf(statistics[j]).state < InputOf(statistics[j - 1]).state

(***************************************************************************)
(* C10: the backward link of a backup denotes the fully original chain:    *)
(* the state and sum read through a row's backup's prev equal the          *)
(* predecessor's values as read from the input, up to the end of both      *)
(* passes.                                                                 *)
(***************************************************************************)
C10_BackupLinkIsOriginal ==
    \A i \in 1..Len(statistics) :
        LET e == statistics[i]
            linked == heap[heap[e].original].prev
        IN  has_backup(heap, e)
                => /\ heap[linked].state = InputOf(heap[e].prev).state
                   /\ heap[linked].sum = InputOf(heap[e].prev).sum

====
